---- MODULE Spec2Model ----
(***************************************************************************)
(* Model of the mail handler of citypay/node-mail-handler.                 *)
(*                                                                         *)
(* The branding-aware handler (src/unnamed/part_000) is modelled as a      *)
(* state machine over one invocation: the synchronous part of              *)
(* exports.handler is one action (Handler), and each callback of the two   *)
(* asynchronous collaborators (the recaptcha verification and the SES      *)
(* sendEmail call) is one action.                                          *)
(*                                                                         *)
(* JavaScript objects are functions whose DOMAIN is the set of properties  *)
(* the object has: a missing property is a name outside the DOMAIN.        *)
(* JavaScript strings that the code inspects (mail bodies, file contents)  *)
(* are sequences of one-character strings, so startsWith and the template  *)
(* literal of htmlify are computed character by character.                 *)
(***************************************************************************)
EXTENDS Integers, Sequences, FiniteSets, TLC

VARIABLES
    config,        \* the request object handed to exports.handler (<<>> before the call)
    pc,            \* "init" | "returned" | "threw": position of the synchronous part
    errCalls,      \* arguments of the calls to the error handler `err`, in order
    completed,     \* arguments of the calls to completionHandler, in order
    started,       \* number of times startDeliveryProc has run
    results,       \* the results array of startDeliveryProc
    latch,         \* the latch of startDeliveryProc
    sent,          \* indices of the mail items sendMail was invoked for, in order
    sesCalls,      \* the ses.sendEmail calls issued: [item, params], in order
    pending,       \* items whose ses.sendEmail callback is outstanding
    verification,  \* "none" | "pending" | "success" | "failure" | "error"
    replies,       \* what ses.sendEmail called back with, per item: "ok" | "error"
    writes,        \* per item, how often a callback of sendMail wrote its result
    htmlifyCall    \* htmlify on its own: [bod, brand, out], out the successive results

\* the state of one invocation of the handler
handlerVars == <<config, pc, errCalls, completed, started, results, latch, sent,
                 sesCalls, pending, verification, replies, writes>>

vars == <<handlerVars, htmlifyCall>>

----------------------------------------------------------------------------
(* Bounds of the model *)

\* largest number of mail items in a request
MaxMail == 2

----------------------------------------------------------------------------
(* JavaScript values *)

Has(o, k) == k \in DOMAIN o

\* o[k] is a truthy string (present and not '')
TruthyStr(o, k) == Has(o, k) /\ o[k] # ""

\* o[k] is a truthy boolean
TruthyBool(o, k) == Has(o, k) /\ o[k] = TRUE

\* values of mail.body: a string (as characters), a number, or undefined
Str(chars) == [type |-> "string", chars |-> chars]
Num(n) == [type |-> "number", n |-> n]
Undefined == [type |-> "undefined"]

Prop(o, k) == IF Has(o, k) THEN o[k] ELSE Undefined

Truthy(v) ==
    CASE v.type = "string" -> v.chars # <<>>
      [] v.type = "number" -> v.n # 0
      [] OTHER -> FALSE

\* String.prototype.startsWith on character sequences
StartsWith(s, prefix) ==
    /\ Len(s) >= Len(prefix)
    /\ SubSeq(s, 1, Len(prefix)) = prefix

Digit(d) == <<"0", "1", "2", "3", "4", "5", "6", "7", "8", "9">>[d + 1]

RECURSIVE Digits(_)
Digits(n) == IF n < 10 THEN <<Digit(n)>> ELSE Digits(n \div 10) \o <<Digit(n % 10)>>

\* bod + '' : conversion to a string
ToStr(v) ==
    CASE v.type = "string" -> v.chars
      [] v.type = "number" -> Digits(v.n)
      [] OTHER -> <<"u","n","d","e","f","i","n","e","d">>

\* values stored in result.message
Null == [type |-> "null"]
TypeError == [type |-> "TypeError"]
MessageId(i) == [type |-> "MessageId", call |-> i]
SesError(i) == [type |-> "SesError", call |-> i]

----------------------------------------------------------------------------
(* Brand templating: _mapKeysAndReadData and htmlify *)

\* The asset files fs.readFileSync can read; reading any other path throws.
FileSystem ==
    [p \in {"assets/style.css", "assets/header.html", "assets/footer.html"} |->
        CASE p = "assets/style.css" -> <<"p","{","}">>
          [] p = "assets/header.html" -> <<"<","h","1",">","X","<","/","h","1",">">>
          [] p = "assets/footer.html" -> <<"b","y","e">>]

\* The resolved brand of sendMail is undefined, a string (a brand name that was
\* never looked up) or an object (an entry of config.branding).
NoBrand == [kind |-> "undefined"]
BrandName(name) == [kind |-> "string", name |-> name]
BrandObject(def) == [kind |-> "object", def |-> def]

\* One key of _mapKeysAndReadData(src, {}, '', false, ...): the file's text
\* when src has a truthy src[key] and the read succeeds, else the default ''.
ReadKey(src, key) ==
    IF src.kind = "object" /\ TruthyStr(src.def, key)
    THEN IF src.def[key] \in DOMAIN FileSystem
         THEN FileSystem[src.def[key]]
         ELSE <<>>
    ELSE <<>>

mapKeysAndReadData(src) ==
    [css |-> ReadKey(src, "css"),
     header |-> ReadKey(src, "header"),
     footer |-> ReadKey(src, "footer")]

TemplateHead == <<"<","!","D","O","C","T","Y","P","E"," ","h","t","m","l",">","\n","<","h","t","m","l",">","\n","<","h","e","a","d",">","\n"," "," ","<","s","t","y","l","e",">","\n">>
TemplateAfterCss == <<"\n"," "," ","<","/","s","t","y","l","e",">","\n","<","/","h","e","a","d",">","\n","<","b","o","d","y",">","\n","<","d","i","v"," ","c","l","a","s","s","=","\"","w","r","a","p","p","e","r","\"",">","\n"," ">>
TemplateAfterHeader == <<"\n"," ","<","d","i","v"," ","i","d","=","\"","e","m","a","i","l","_","b","o","d","y","\"",">","\n"," ">>
TemplateAfterBody == <<"\n"," ","<","/","d","i","v",">","\n"," ">>
TemplateTail == <<"\n","<","/","d","i","v",">","\n","<","/","b","o","d","y",">","\n","<","/","h","t","m","l",">","\n">>

\* the template literal of htmlify
Template(spec, bod) ==
    TemplateHead \o spec.css \o TemplateAfterCss \o spec.header \o
    TemplateAfterHeader \o bod \o TemplateAfterBody \o spec.footer \o TemplateTail

HtmlTag == <<"<","h","t","m","l">>
Doctype == <<"<","!","D","O","C","T","Y","P","E">>

\* htmlify that takes only '<html' for a finished document
htmlifyTextHtmlTagOnly(bod, brand) ==
    IF StartsWith(bod, HtmlTag)
    THEN bod
    ELSE Template(mapKeysAndReadData(brand), bod)

htmlifyText(bod, brand) ==
    IF StartsWith(bod, HtmlTag) \/ StartsWith(bod, Doctype)
    THEN bod
    ELSE Template(mapKeysAndReadData(brand), bod)

\* htmlify(bod, brand): bod is any value, converted to a string first
htmlify(bod, brand) == htmlifyText(ToStr(bod), brand)

----------------------------------------------------------------------------
(* sendMail: building the delivery request *)

\* config.deliver after Object.assign({deliver: true}, config) and the
\* undefined check
Deliver(cfg) == IF Has(cfg, "deliver") THEN cfg.deliver ELSE TRUE

\* mail.brand || config.brand
RequestedBrand(mail, cfg) ==
    IF TruthyStr(mail, "brand") THEN BrandName(mail.brand)
    ELSE IF TruthyStr(cfg, "brand") THEN BrandName(cfg.brand)
    ELSE NoBrand

\* config.branding.find(e => e.name === name)
RECURSIVE Find(_, _)
Find(branding, name) ==
    IF branding = <<>> THEN NoBrand
    ELSE IF Has(Head(branding), "name") /\ Head(branding).name = name
         THEN BrandObject(Head(branding))
         ELSE Find(Tail(branding), name)

ResolveBrand(mail, cfg) ==
    LET brand == RequestedBrand(mail, cfg)
    IN  IF Has(cfg, "branding") /\ brand # NoBrand
        THEN Find(cfg.branding, brand.name)
        ELSE brand

\* optional property k of o, copied under the name k2
Copy(o, k, k2) == IF Has(o, k) THEN [x \in {k2} |-> o[k]] ELSE <<>>

\* if (mail.replyTo) params.ReplyToAddresses = [mail.replyTo]
ReplyTo(mail) ==
    IF TruthyStr(mail, "replyTo") THEN [ReplyToAddresses |-> <<mail.replyTo>>] ELSE <<>>

\* Message.Body with an HTML fragment passed on as it is when no brand applies
MessageBodyRaw(mail, cfg) ==
    LET brand == ResolveBrand(mail, cfg)
        body == Prop(mail, "body")
    IN  IF brand # NoBrand
        THEN [threw |-> FALSE, Body |-> [Html |-> htmlify(body, brand)]]
        ELSE IF body.type # "string"
        THEN [threw |-> TRUE, error |-> TypeError]
        ELSE IF StartsWith(body.chars, <<"<">>)
        THEN [threw |-> FALSE, Body |-> [Html |-> body.chars]]
        ELSE [threw |-> FALSE, Body |-> [Text |-> body.chars]]

\* Message.Body of the delivery request, or the exception thrown while
\* building it (mail.body.startsWith on a value that is no string)
MessageBody(mail, cfg) ==
    LET brand == ResolveBrand(mail, cfg)
        body == Prop(mail, "body")
    IN  IF brand # NoBrand
        THEN [threw |-> FALSE, Body |-> [Html |-> htmlify(body, brand)]]
        ELSE IF body.type # "string"
        THEN [threw |-> TRUE, error |-> TypeError]
        ELSE IF StartsWith(body.chars, <<"<">>)
        THEN [threw |-> FALSE, Body |-> [Html |-> htmlify(body, NoBrand)]]
        ELSE [threw |-> FALSE, Body |-> [Text |-> body.chars]]

\* the params object of sendMail
Params(mail, cfg) ==
    Copy(mail, "to", "ToAddresses") @@ Copy(mail, "cc", "CcAddresses") @@
    Copy(mail, "bcc", "BccAddresses") @@ Copy(mail, "subject", "Subject") @@
    Copy(mail, "from", "Source") @@ ReplyTo(mail) @@
    [Body |-> MessageBody(mail, cfg).Body]

----------------------------------------------------------------------------
(* Validation *)

\* the first failing check of one mail item, as the list of err(...) calls
\* the forEach callback makes for it
ItemErrors(m) ==
    IF ~TruthyStr(m, "from") THEN <<"No mail from value provided">>
    ELSE IF ~Has(m, "to") \/ Len(m.to) = 0 THEN <<"No mail to values provided">>
    ELSE IF ~TruthyStr(m, "subject") THEN <<"No mail subject value provided">>
    ELSE IF ~Truthy(Prop(m, "body")) THEN <<"No mail body value provided">>
    ELSE <<>>

\* config.mail.forEach(m => { ... return validationError(...) ... }): the
\* return leaves the callback of one item only, the loop goes on
RECURSIVE MailErrors(_)
MailErrors(mail) ==
    IF mail = <<>> THEN <<>>
    ELSE ItemErrors(Head(mail)) \o MailErrors(Tail(mail))

\* a validation that asks for response and secret when recaptcha.enabled is
\* true instead of when it is not
ValidateWhenEnabled(cfg) ==
    IF ~Has(cfg, "recaptcha")
    THEN [errs |-> <<"No recaptcha settings provided">>, end |-> "return"]
    ELSE IF TruthyBool(cfg.recaptcha, "enabled") /\ ~TruthyStr(cfg.recaptcha, "response")
    THEN [errs |-> <<"No recaptcha response provided">>, end |-> "return"]
    ELSE IF TruthyBool(cfg.recaptcha, "enabled") /\ ~TruthyStr(cfg.recaptcha, "secret")
    THEN [errs |-> <<"No recaptcha secret provided">>, end |-> "return"]
    ELSE IF ~Has(cfg, "mail")
    THEN [errs |-> <<>>, end |-> "throw"]
    ELSE [errs |-> MailErrors(cfg.mail), end |-> "pass"]

\* The validation of exports.handler: the err(...) calls it makes and how it
\* ends: "return" (the handler returns), "throw" (config.mail.length on a
\* missing mail throws a TypeError out of the handler) or "pass".
Validate(cfg) ==
    IF ~Has(cfg, "recaptcha")
    THEN [errs |-> <<"No recaptcha settings provided">>, end |-> "return"]
    ELSE IF ~TruthyBool(cfg.recaptcha, "enabled") /\ ~TruthyStr(cfg.recaptcha, "response")
    THEN [errs |-> <<"No recaptcha response provided">>, end |-> "return"]
    ELSE IF ~TruthyBool(cfg.recaptcha, "enabled") /\ ~TruthyStr(cfg.recaptcha, "secret")
    THEN [errs |-> <<"No recaptcha secret provided">>, end |-> "return"]
    ELSE IF ~Has(cfg, "mail")
    THEN [errs |-> <<>>, end |-> "throw"]
    ELSE [errs |-> MailErrors(cfg.mail), end |-> "pass"]

----------------------------------------------------------------------------
(* startDeliveryProc: fan-out, latch and completion *)

\* The state startDeliveryProc and its callbacks work on.
Delivery ==
    [results |-> results, latch |-> latch, completed |-> completed,
     sent |-> sent, sesCalls |-> sesCalls, pending |-> pending, writes |-> writes]

Without(o, k) == [x \in DOMAIN o \ {k} |-> o[x]]

\* one element of config.mail.map(m => ({success, message, subject, mail}))
NewResult(m) ==
    [success |-> FALSE, message |-> Null, mail |-> m] @@ Copy(m, "subject", "subject")

\* results.forEach(r => delete r.mail)
StripMail(rs) == [i \in DOMAIN rs |-> Without(rs[i], "mail")]

\* cleanResults that hands the results over with their mail items
cleanResultsKeepMail(st) == [st EXCEPT !.completed = Append(@, st.results)]

\* cleanResults(results)
cleanResults(st) ==
    LET cleaned == StripMail(st.results)
    IN  [st EXCEPT !.results = cleaned, !.completed = Append(@, cleaned)]

\* if (latch-- === 0) cleanResults(results): the value before the decrement
\* is compared
CountDownPostDecrement(st) ==
    LET st1 == [st EXCEPT !.latch = @ - 1]
    IN  IF st.latch = 0 THEN cleanResults(st1) ELSE st1

\* if (--latch === 0) cleanResults(results)
CountDown(st) ==
    LET st1 == [st EXCEPT !.latch = @ - 1]
    IN  IF st1.latch = 0 THEN cleanResults(st1) ELSE st1

\* an error callback that records the failure and leaves the latch alone
OnErrorNoCountDown(st, i, e) ==
    [st EXCEPT !.results[i].success = FALSE, !.results[i].message = e,
               !.writes[i] = @ + 1]

\* an error callback that ends the batch at the first failure: it reports
\* the results as they are and leaves the latch alone
OnErrorAborts(st, i, e) ==
    LET failed == [st.results EXCEPT ![i].success = FALSE, ![i].message = e]
    IN  [st EXCEPT !.results = failed, !.completed = Append(@, StripMail(failed)),
                   !.writes[i] = @ + 1]

\* the error callback startDeliveryProc hands to sendMail for item i
OnError(st, i, e) ==
    CountDown([st EXCEPT !.results[i].success = FALSE, !.results[i].message = e,
                         !.writes[i] = @ + 1])

\* a success callback that writes the first result whatever its item is
OnSuccessFirstResult(st, i, id) ==
    CountDown([st EXCEPT !.results[1].success = TRUE, !.results[1].message = id,
                         !.writes[i] = @ + 1])

\* the success callback startDeliveryProc hands to sendMail for item i
OnSuccess(st, i, id) ==
    CountDown([st EXCEPT !.results[i].success = TRUE, !.results[i].message = id,
                         !.writes[i] = @ + 1])

\* a sendMail that calls ses.sendEmail whatever config.deliver says
sendMailAlwaysDelivers(st, i, cfg) ==
    LET mail == st.results[i].mail
        built == MessageBody(mail, cfg)
        st1 == [st EXCEPT !.sent = Append(@, i)]
    IN  IF built.threw THEN OnError(st1, i, built.error)
        ELSE [st1 EXCEPT !.sesCalls = Append(@, [item |-> i, params |-> Params(mail, cfg)]),
                         !.pending = @ \cup {i}]

\* a sendMail whose catch block swallows the exception
sendMailDropsException(st, i, cfg) ==
    LET mail == st.results[i].mail
        built == MessageBody(mail, cfg)
        st1 == [st EXCEPT !.sent = Append(@, i)]
    IN  IF built.threw THEN st1
        ELSE IF Deliver(cfg)
        THEN [st1 EXCEPT !.sesCalls = Append(@, [item |-> i, params |-> Params(mail, cfg)]),
                         !.pending = @ \cup {i}]
        ELSE st1

\* the synchronous part of sendMail(onError, onSuccess, results[i].mail)
sendMail(st, i, cfg) ==
    LET mail == st.results[i].mail
        built == MessageBody(mail, cfg)
        st1 == [st EXCEPT !.sent = Append(@, i)]
    IN  IF built.threw THEN OnError(st1, i, built.error)
        ELSE IF Deliver(cfg)
        THEN [st1 EXCEPT !.sesCalls = Append(@, [item |-> i, params |-> Params(mail, cfg)]),
                         !.pending = @ \cup {i}]
        ELSE st1

\* results.forEach(res => sendMail(..., res.mail)), from item i on
RECURSIVE SendFrom(_, _, _)
SendFrom(st, i, cfg) ==
    IF i > Len(st.results) THEN st
    ELSE LET after == {sendMail(st, i, cfg)}
         IN  CHOOSE end \in {SendFrom(s, i + 1, cfg) : s \in after} : TRUE

startDeliveryProc(st, cfg) ==
    LET fresh == {[st EXCEPT !.results = [i \in DOMAIN cfg.mail |-> NewResult(cfg.mail[i])],
                             !.latch = Len(cfg.mail),
                             !.writes = [i \in DOMAIN cfg.mail |-> 0]]}
    IN  CHOOSE end \in {SendFrom(s, 1, cfg) : s \in fresh} : TRUE

\* the variables of Delivery take the values of next
Become(next) ==
    \E st \in {next} :
        /\ results' = st.results
        /\ latch' = st.latch
        /\ completed' = st.completed
        /\ sent' = st.sent
        /\ sesCalls' = st.sesCalls
        /\ pending' = st.pending
        /\ writes' = st.writes

----------------------------------------------------------------------------
(* The requests the model runs the handler on *)

Opt(S) == {<<>>} \cup S

Recaptchas ==
    {e @@ r @@ s : e \in Opt({[enabled |-> TRUE], [enabled |-> FALSE]}),
                   r \in Opt({[response |-> "response"]}),
                   s \in Opt({[secret |-> "secret"]})}

ValidItem(subject, body) ==
    [from |-> "a@x.com", to |-> <<"b@x.com">>, subject |-> subject, body |-> body]

BodyText == Str(<<"h","i">>)
BodyFragment == Str(<<"<","p",">","h","i","<","/","p",">">>)
BodyHtml == Str(<<"<","h","t","m","l",">","<","p",">","h","i","<","/","p",">","<","/","h","t","m","l",">">>)
BodyDoctype == Str(<<"<","!","D","O","C","T","Y","P","E"," ","h","t","m","l",">","<","h","t","m","l",">","<","/","h","t","m","l",">">>)
BodyNumber == Num(5)

\* mail items of the orchestration requests: a valid one, one that passes
\* validation and makes sendMail throw, and one for each check of the
\* per-item validation
OrchestrationItems ==
    LET ok == ValidItem("S1", BodyText)
    IN  {ok, ValidItem("S2", BodyNumber),
         Without(ok, "from"), Without(ok, "to"), [ok EXCEPT !.to = <<>>],
         Without(ok, "subject"), Without(ok, "body")}

SeqsUpTo(S, n) == UNION {[1..k -> S] : k \in 0..n}

\* every recaptcha setting, with delivery left at its default or switched
\* off, over mail sequences of up to MaxMail items
OrchestrationRequests ==
    {r @@ m @@ d : r \in Opt({[recaptcha |-> x] : x \in Recaptchas}),
                   m \in Opt({[mail |-> x] : x \in SeqsUpTo(OrchestrationItems, MaxMail)}),
                   d \in Opt({[deliver |-> FALSE]})}

Brand1 ==
    [name |-> "brand1", css |-> "assets/style.css", header |-> "assets/header.html",
     footer |-> "assets/footer.html"]
\* a brand whose css file cannot be read and that names no header
Brand2 == [name |-> "brand2", css |-> "assets/missing.css", footer |-> "assets/footer.html"]

BrandRefs == Opt({[brand |-> "brand1"], [brand |-> "brand2"], [brand |-> "other"]})

\* one valid mail item, verification not enabled, deliver true: every body against every
\* brand reference on the item and on the request, with and without a
\* branding sequence
DispatchRequests ==
    {[recaptcha |-> [enabled |-> FALSE, response |-> "response", secret |-> "secret"],
      mail |-> <<ValidItem("S1", b) @@ ib>>, deliver |-> TRUE] @@ cb @@ bs :
        b \in {BodyText, BodyFragment, BodyHtml, BodyDoctype, BodyNumber},
        ib \in BrandRefs, cb \in BrandRefs,
        bs \in Opt({[branding |-> <<Brand1, Brand2>>]})}

Requests == OrchestrationRequests \cup DispatchRequests

----------------------------------------------------------------------------
(* The state machine *)

\* no request has been handed to the handler yet
Init ==
    /\ config = <<>>
    /\ pc = "init"
    /\ errCalls = <<>>
    /\ completed = <<>>
    /\ started = 0
    /\ results = <<>>
    /\ latch = 0
    /\ sent = <<>>
    /\ sesCalls = <<>>
    /\ pending = {}
    /\ verification = "none"
    /\ replies = <<>>
    /\ writes = <<>>
    /\ htmlifyCall = <<>>

\* a handler that starts the delivery as soon as validation passes, whether
\* verification is enabled or not
InvokeWithoutVerification(cfg) ==
    /\ config' = cfg
    /\ LET v == Validate(cfg)
       IN  /\ errCalls' = errCalls \o v.errs
           /\ pc' = IF v.end = "throw" THEN "threw" ELSE "returned"
           /\ IF v.end = "pass"
              THEN /\ started' = started + 1
                   /\ Become(startDeliveryProc(Delivery, cfg))
                   /\ UNCHANGED verification
              ELSE UNCHANGED <<verification, started, results, latch, completed, sent,
                               sesCalls, pending, writes>>
    /\ UNCHANGED <<replies, htmlifyCall>>

\* exports.handler(err, completionHandler, cfg), up to its return
Invoke(cfg) ==
    /\ config' = cfg
    /\ LET v == Validate(cfg)
       IN  /\ errCalls' = errCalls \o v.errs
           /\ pc' = IF v.end = "throw" THEN "threw" ELSE "returned"
           /\ IF v.end = "pass" /\ ~TruthyBool(cfg.recaptcha, "enabled")
              THEN /\ started' = started + 1
                   /\ Become(startDeliveryProc(Delivery, cfg))
                   /\ UNCHANGED verification
              ELSE /\ verification' = IF v.end = "pass" THEN "pending" ELSE verification
                   /\ UNCHANGED <<started, results, latch, completed, sent, sesCalls, pending, writes>>
    /\ UNCHANGED <<replies, htmlifyCall>>

\* the handler is invoked once, with any of the requests
Handler == pc = "init" /\ \E cfg \in Requests : Invoke(cfg)

\* the verification calls its success callback: startDeliveryProc
RecaptchaSuccess ==
    /\ verification = "pending"
    /\ verification' = "success"
    /\ started' = started + 1
    /\ Become(startDeliveryProc(Delivery, config))
    /\ UNCHANGED <<config, pc, errCalls, replies, htmlifyCall>>

\* a failure callback wired to startDeliveryProc
RecaptchaFailureDelivers ==
    /\ verification = "pending"
    /\ verification' = "failure"
    /\ started' = started + 1
    /\ Become(startDeliveryProc(Delivery, config))
    /\ UNCHANGED <<config, pc, errCalls, replies, htmlifyCall>>

\* the verification calls its failure callback
RecaptchaFailure ==
    /\ verification = "pending"
    /\ verification' = "failure"
    /\ errCalls' = Append(errCalls, "Google reCaptcha success failure")
    /\ UNCHANGED <<config, pc, completed, started, results, latch, sent, sesCalls, pending, replies, writes, htmlifyCall>>

\* the verification calls its err callback, which is the handler's err
RecaptchaError ==
    /\ verification = "pending"
    /\ verification' = "error"
    /\ errCalls' = Append(errCalls, "recaptcha error")
    /\ UNCHANGED <<config, pc, completed, started, results, latch, sent, sesCalls, pending, replies, writes, htmlifyCall>>

\* ses.sendEmail calls back with data.MessageId for item i
SesSuccess(i) ==
    /\ i \in pending
    /\ Become([OnSuccess(Delivery, i, MessageId(i)) EXCEPT !.pending = @ \ {i}])
    /\ replies' = replies @@ (i :> "ok")
    /\ UNCHANGED <<config, pc, errCalls, started, verification, htmlifyCall>>

\* ses.sendEmail calls back with an error for item i
SesFailure(i) ==
    /\ i \in pending
    /\ Become([OnError(Delivery, i, SesError(i)) EXCEPT !.pending = @ \ {i}])
    /\ replies' = replies @@ (i :> "error")
    /\ UNCHANGED <<config, pc, errCalls, started, verification, htmlifyCall>>

Next ==
    \/ Handler
    \/ RecaptchaSuccess
    \/ RecaptchaFailure
    \/ RecaptchaError
    \/ \E i \in pending : SesSuccess(i)
    \/ \E i \in pending : SesFailure(i)

Spec == Init /\ [][Next]_vars

\* Some outstanding ses.sendEmail call calls back.
SesCallback == \E i \in pending : SesSuccess(i) \/ SesFailure(i)

\* The verification calls one of its three callbacks.
RecaptchaCallback == RecaptchaSuccess \/ RecaptchaFailure \/ RecaptchaError

\* The handler runs to its return, and each collaborator that was called
\* calls back: every ses.sendEmail call and the verification call.
FairSpec ==
    Spec /\ WF_vars(Handler) /\ WF_vars(SesCallback) /\ WF_vars(RecaptchaCallback)

----------------------------------------------------------------------------
(* htmlify on its own: applied to a body and a brand, then to its own result *)

HtmlifyBodies ==
    {BodyText, BodyFragment, BodyHtml, BodyDoctype, BodyNumber, Undefined,
     Str(<<>>), Str(<<"<">>), Str(<<"<","h","t","m">>),
     Str(<<"<","H","T","M","L",">">>),
     Str(<<"<","!","d","o","c","t","y","p","e"," ","h","t","m","l",">">>),
     Str(<<" ","<","h","t","m","l",">">>)}

HtmlifyBrands ==
    {NoBrand, BrandName("brand1"), BrandObject(Brand1), BrandObject(Brand2),
     BrandObject([name |-> "bare"])}

\* htmlify(bod, brand)
HtmlifyFirst ==
    /\ htmlifyCall = <<>>
    /\ \E b \in HtmlifyBodies, br \in HtmlifyBrands :
        htmlifyCall' = [bod |-> b, brand |-> br, out |-> <<htmlify(b, br)>>]
    /\ UNCHANGED handlerVars

\* htmlify(htmlify(bod, brand), brand)
HtmlifyAgain ==
    /\ htmlifyCall # <<>>
    /\ Len(htmlifyCall.out) = 1
    /\ htmlifyCall' = [htmlifyCall EXCEPT
           !.out = Append(@, htmlify(Str(htmlifyCall.out[1]), htmlifyCall.brand))]
    /\ UNCHANGED handlerVars

NextHtmlify == HtmlifyFirst \/ HtmlifyAgain

SpecHtmlify == Init /\ [][NextHtmlify]_vars

----------------------------------------------------------------------------
(* The handler of src/index.js: verification is always asked for, there is no
   latch, no branding and no deliver switch *)

\* the checks of one mail item: the errorHandler(...) call it makes, and
\* whether event.mail.to.length, read on the array event.mail, throws
indexItemErrors(m) ==
    IF ~TruthyStr(m, "from")
    THEN [errs |-> <<"No mail from value provided">>, threw |-> FALSE]
    ELSE IF ~Has(m, "to")
    THEN [errs |-> <<"No mail to values provided">>, threw |-> FALSE]
    ELSE [errs |-> <<>>, threw |-> TRUE]

\* event.mail.forEach(m => { ... }): a return leaves the callback of one item
\* only, an exception ends the loop
RECURSIVE indexMailErrors(_)
indexMailErrors(mail) ==
    IF mail = <<>> THEN [errs |-> <<>>, threw |-> FALSE]
    ELSE LET first == indexItemErrors(Head(mail))
             rest == indexMailErrors(Tail(mail))
         IN  IF first.threw THEN first
             ELSE [errs |-> first.errs \o rest.errs, threw |-> rest.threw]

\* the validation of exports.handler in src/index.js
indexValidate(event) ==
    IF ~Has(event, "recaptcha")
    THEN [errs |-> <<"No recaptcha settings provided">>, end |-> "return"]
    ELSE IF ~TruthyStr(event.recaptcha, "response")
    THEN [errs |-> <<"No recaptcha response provided">>, end |-> "return"]
    ELSE IF ~TruthyStr(event.recaptcha, "secret")
    THEN [errs |-> <<"No recaptcha secret provided">>, end |-> "return"]
    ELSE IF ~Has(event, "mail")
    THEN [errs |-> <<>>, end |-> "throw"]
    ELSE LET items == indexMailErrors(event.mail)
         IN  [errs |-> items.errs, end |-> IF items.threw THEN "throw" ELSE "pass"]

\* the params object of sendMail in src/index.js: Source is event.mail.from,
\* read on the array, and so undefined; the body data is mail.body as it is
indexParams(mail) ==
    Copy(mail, "to", "ToAddresses") @@ Copy(mail, "cc", "CcAddresses") @@
    Copy(mail, "bcc", "BccAddresses") @@ Copy(mail, "subject", "Subject") @@
    ReplyTo(mail) @@
    [Body |-> IF StartsWith(mail.body.chars, <<"<">>)
              THEN [Html |-> mail.body.chars]
              ELSE [Text |-> mail.body.chars]]

\* sendMail(onError, onSuccess, results[i].mail) up to its return:
\* mail.body.startsWith throws unless the body is a string
indexSendMail(st, i) ==
    LET mail == st.results[i].mail
        st1 == [st EXCEPT !.sent = Append(@, i)]
    IN  IF Prop(mail, "body").type # "string"
        THEN [threw |-> TRUE, st |-> st1]
        ELSE [threw |-> FALSE,
              st |-> [st1 EXCEPT !.sesCalls = Append(@, [item |-> i, params |-> indexParams(mail)]),
                                 !.pending = @ \cup {i}]]

\* results.forEach(res => sendMail(..., res.mail)), from item i on
RECURSIVE indexSendFrom(_, _)
indexSendFrom(st, i) ==
    IF i > Len(st.results) THEN [threw |-> FALSE, st |-> st]
    ELSE LET one == indexSendMail(st, i)
         IN  IF one.threw THEN one ELSE indexSendFrom(one.st, i + 1)

\* startDeliveryProc of src/index.js: the results, the sends, then
\* delete r.mail and completionHandler(results), all before it returns
indexStartDeliveryProc(st, event) ==
    LET run == indexSendFrom([st EXCEPT !.results = [i \in DOMAIN event.mail |-> NewResult(event.mail[i])],
                                        !.writes = [i \in DOMAIN event.mail |-> 0]], 1)
    IN  IF run.threw THEN run
        ELSE [threw |-> FALSE, st |-> cleanResults(run.st)]

\* mail items for src/index.js: only an item without from or without to gets
\* past the validation
IndexItems ==
    LET ok == ValidItem("S1", BodyText)
    IN  {ok, Without(ok, "from"), Without(ok, "to"),
         Without(ValidItem("S2", BodyFragment), "from"),
         Without(ValidItem("S3", BodyNumber), "from"),
         Without(Without(ok, "from"), "body")}

IndexRecaptchas ==
    {r @@ s : r \in Opt({[response |-> "response"]}), s \in Opt({[secret |-> "secret"]})}

IndexRequests ==
    {r @@ m : r \in Opt({[recaptcha |-> x] : x \in IndexRecaptchas}),
              m \in Opt({[mail |-> x] : x \in SeqsUpTo(IndexItems, MaxMail)})}

\* exports.handler(errorHandler, completionHandler, event), up to its return
indexInvoke(event) ==
    /\ config' = event
    /\ LET v == indexValidate(event)
       IN  /\ errCalls' = errCalls \o v.errs
           /\ pc' = IF v.end = "throw" THEN "threw" ELSE "returned"
           /\ verification' = IF v.end = "pass" THEN "pending" ELSE verification
    /\ UNCHANGED <<started, results, latch, completed, sent, sesCalls, pending, writes,
                   replies, htmlifyCall>>

indexHandler == pc = "init" /\ \E event \in IndexRequests : indexInvoke(event)

\* the verification calls success: startDeliveryProc runs to its end, or to
\* the exception of a sendMail, which leaves it through the callback
indexRecaptchaSuccess ==
    /\ verification = "pending"
    /\ verification' = "success"
    /\ started' = started + 1
    /\ \E run \in {indexStartDeliveryProc(Delivery, config)} :
        /\ Become(run.st)
        /\ pc' = IF run.threw THEN "threw" ELSE pc
    /\ UNCHANGED <<config, errCalls, replies, htmlifyCall>>

\* the verification calls failure, which is errorHandler
indexRecaptchaFailure ==
    /\ verification = "pending"
    /\ verification' = "failure"
    /\ errCalls' = Append(errCalls, "recaptcha failure")
    /\ UNCHANGED <<config, pc, completed, started, results, latch, sent, sesCalls, pending,
                   replies, writes, htmlifyCall>>

\* the verification calls err, which is errorHandler
indexRecaptchaError ==
    /\ verification = "pending"
    /\ verification' = "error"
    /\ errCalls' = Append(errCalls, "recaptcha error")
    /\ UNCHANGED <<config, pc, completed, started, results, latch, sent, sesCalls, pending,
                   replies, writes, htmlifyCall>>

\* ses.sendEmail calls back with data.MessageId for item i
indexSesSuccess(i) ==
    /\ i \in pending
    /\ results' = [results EXCEPT ![i].success = TRUE, ![i].message = MessageId(i)]
    /\ writes' = [writes EXCEPT ![i] = @ + 1]
    /\ pending' = pending \ {i}
    /\ replies' = replies @@ (i :> "ok")
    /\ UNCHANGED <<config, pc, errCalls, completed, started, latch, sent, sesCalls,
                   verification, htmlifyCall>>

\* ses.sendEmail calls back with an error for item i
indexSesFailure(i) ==
    /\ i \in pending
    /\ results' = [results EXCEPT ![i].success = FALSE, ![i].message = SesError(i)]
    /\ writes' = [writes EXCEPT ![i] = @ + 1]
    /\ pending' = pending \ {i}
    /\ replies' = replies @@ (i :> "error")
    /\ UNCHANGED <<config, pc, errCalls, completed, started, latch, sent, sesCalls,
                   verification, htmlifyCall>>

NextIndex ==
    \/ indexHandler
    \/ indexRecaptchaSuccess
    \/ indexRecaptchaFailure
    \/ indexRecaptchaError
    \/ \E i \in pending : indexSesSuccess(i)
    \/ \E i \in pending : indexSesFailure(i)

SpecIndex == Init /\ [][NextIndex]_vars

----------------------------------------------------------------------------
(* The cases the claims speak of, stated on the request itself *)

Mail == IF Has(config, "mail") THEN config.mail ELSE <<>>

Enabled == Has(config, "recaptcha") /\ TruthyBool(config.recaptcha, "enabled")

\* the recaptcha settings validation asks for are there
RecaptchaComplete ==
    /\ Has(config, "recaptcha")
    /\ \/ Enabled
       \/ TruthyStr(config.recaptcha, "response") /\ TruthyStr(config.recaptcha, "secret")

\* a mail item with from, a non-empty to, subject and body
ItemComplete(m) ==
    /\ TruthyStr(m, "from")
    /\ Has(m, "to") /\ m.to # <<>>
    /\ TruthyStr(m, "subject")
    /\ Has(m, "body") /\ Truthy(m.body)

PassesValidation ==
    /\ RecaptchaComplete
    /\ Has(config, "mail")
    /\ \A i \in DOMAIN Mail : ItemComplete(Mail[i])

\* what became of mail item i: the reply of ses.sendEmail, or the exception
\* of sendMail when no delivery call was made for it
Outcome(i) ==
    IF i \in DOMAIN replies
    THEN IF replies[i] = "ok"
         THEN [success |-> TRUE, message |-> MessageId(i)]
         ELSE [success |-> FALSE, message |-> SesError(i)]
    ELSE [success |-> FALSE, message |-> TypeError]

\* arr has one entry per mail item, in mail order, each with the subject and
\* the outcome of its item
ResultsMatch(arr) ==
    /\ Len(arr) = Len(Mail)
    /\ \A i \in DOMAIN Mail :
        /\ Has(arr[i], "subject") /\ arr[i].subject = Mail[i].subject
        /\ arr[i].success = Outcome(i).success
        /\ arr[i].message = Outcome(i).message

----------------------------------------------------------------------------
(* Claims *)

C1Case == PassesValidation /\ Len(Mail) >= 1 /\ ~Enabled /\ Deliver(config)

\* C1: for a request that passes validation with N >= 1 mail items,
\* recaptcha.enabled false and deliver true, when every delivery call calls
\* back, completionHandler is eventually invoked, never more than once, and
\* with an array of length N whose i-th entry has the subject and the outcome
\* of the i-th mail item.
C1_CompletesOnceInOrder ==
    /\ [](C1Case => /\ Len(completed) <= 1
                    /\ completed # <<>> => ResultsMatch(completed[1]))
    /\ (C1Case ~> Len(completed) = 1)

C1_Witness ==
    /\ C1Case
    /\ Len(Mail) = 2
    /\ Len(completed) = 1
    /\ completed[1][1].success # completed[1][2].success
    /\ completed[1][1].subject # completed[1][2].subject

\* C2 (as claimed): in one invocation the error handler is called at most
\* once, the completion handler at most once, and never both.
C2_CallbacksExclusive ==
    /\ Len(errCalls) <= 1
    /\ Len(completed) <= 1
    /\ ~(errCalls # <<>> /\ completed # <<>>)

C3Case ==
    /\ RecaptchaComplete
    /\ Has(config, "mail")
    /\ \E i \in DOMAIN Mail : ~ItemComplete(Mail[i])

FirstIncomplete == CHOOSE i \in DOMAIN Mail :
    ~ItemComplete(Mail[i]) /\ \A j \in 1..(i - 1) : ItemComplete(Mail[j])

FirstFailingCheck(m) ==
    IF ~TruthyStr(m, "from") THEN "No mail from value provided"
    ELSE IF ~Has(m, "to") \/ m.to = <<>> THEN "No mail to values provided"
    ELSE IF ~TruthyStr(m, "subject") THEN "No mail subject value provided"
    ELSE "No mail body value provided"

\* C3 (as claimed): when a mail item lacks from, to, subject or body, the
\* error handler gets the message of the first failing check only, and
\* there is no verification call, no delivery call and no completion.
C3_FirstFailureStops ==
    (pc # "init" /\ C3Case) =>
        /\ errCalls = <<FirstFailingCheck(Mail[FirstIncomplete])>>
        /\ verification = "none"
        /\ sent = <<>>
        /\ sesCalls = <<>>
        /\ completed = <<>>

\* C4 (as claimed): a request whose mail is missing or empty, with valid
\* recaptcha settings, gets the error handler invoked and never the
\* completion handler.  Stated of the handler once it has returned or thrown
\* and no verification is outstanding.
C4_NoMailIsAnError ==
    (/\ pc # "init"
     /\ verification # "pending"
     /\ RecaptchaComplete
     /\ ~Has(config, "mail") \/ config.mail = <<>>) =>
        /\ errCalls # <<>>
        /\ completed = <<>>

\* C5: when recaptcha.enabled is true and the verification reports failure
\* or an error, the error handler is invoked (in the failure case with
\* 'Google reCaptcha success failure'), sendMail runs for no item, no
\* delivery call is issued and the completion handler is not invoked.
C5_FailedVerificationAborts ==
    verification \in {"failure", "error"} =>
        /\ Enabled
        /\ errCalls # <<>>
        /\ verification = "failure" =>
               errCalls[Len(errCalls)] = "Google reCaptcha success failure"
        /\ started = 0
        /\ sent = <<>>
        /\ sesCalls = <<>>
        /\ pending = {}
        /\ completed = <<>>

C5_Witness ==
    /\ verification = "failure"
    /\ PassesValidation
    /\ Len(Mail) >= 1
    /\ Deliver(config)

\* C6 (as claimed): a delivery call is issued only if the recaptcha
\* verification has run for this invocation and reported success.
C6_SendOnlyAfterRecaptcha ==
    sesCalls # <<>> => verification = "success"

\* the batch passed validation and verification, and a delivery call of it
\* came back with an error
C7Case ==
    /\ PassesValidation
    /\ ~Enabled \/ verification = "success"
    /\ \E i \in DOMAIN replies : replies[i] = "error"

\* C7: in a batch that passed validation and verification, a delivery error
\* of one item does not abort the batch: sendMail has run for every item, in
\* mail order, the top-level error handler is not invoked, the completion
\* handler is invoked at most once, and once every delivery call has called
\* back it has been invoked exactly once with one result per item: success
\* false and the error for a failed item, success true and the delivery
\* identifier for a delivered one.
C7_ItemFailureIsIsolated ==
    C7Case =>
        /\ errCalls = <<>>
        /\ sent = [i \in DOMAIN Mail |-> i]
        /\ Len(completed) <= 1
        /\ pending = {} => /\ Len(completed) = 1
                           /\ ResultsMatch(completed[1])

C7_Witness ==
    /\ C7Case
    /\ Len(completed) = 1
    /\ Len(Mail) = 2
    /\ replies = <<"error", "ok">>
    /\ completed[1][1].message = SesError(1)
    /\ completed[1][2].message = MessageId(2)

C8Case ==
    /\ Has(config, "recaptcha")
    /\ ~Enabled
    /\ ~TruthyStr(config.recaptcha, "response") \/ ~TruthyStr(config.recaptcha, "secret")

RecaptchaFieldMessages ==
    {"No recaptcha response provided", "No recaptcha secret provided"}

\* C8: when the recaptcha settings are present, recaptcha.enabled is false or
\* absent and response or secret is missing, the handler invokes the error
\* handler exactly once, with the message of the missing field (response
\* first), and does nothing else; when recaptcha.enabled is true the handler
\* makes no complaint about either field and, given a mail sequence, goes on
\* to the verification call.
C8_FieldsCheckedOnlyWhenNotEnabled ==
    /\ (pc # "init" /\ C8Case) =>
        /\ pc = "returned"
        /\ errCalls = << IF ~TruthyStr(config.recaptcha, "response")
                         THEN "No recaptcha response provided"
                         ELSE "No recaptcha secret provided" >>
        /\ verification = "none"
        /\ started = 0
        /\ sent = <<>>
        /\ sesCalls = <<>>
        /\ completed = <<>>
    /\ (pc # "init" /\ Enabled) =>
        /\ \A k \in DOMAIN errCalls : errCalls[k] \notin RecaptchaFieldMessages
        /\ Has(config, "mail") => verification # "none"

C8_Witness ==
    /\ pc = "returned"
    /\ C8Case
    /\ TruthyStr(config.recaptcha, "response")
    /\ Has(config, "mail") /\ Len(Mail) >= 1
    /\ errCalls = <<"No recaptcha secret provided">>

\* C9: no result in the array handed to the completion handler has a mail
\* field; each holds success, message and subject only.
C9_ResultsCarryNoMail ==
    \A k \in DOMAIN completed : \A i \in DOMAIN completed[k] :
        /\ ~Has(completed[k][i], "mail")
        /\ {"success", "message"} \subseteq DOMAIN completed[k][i]
        /\ DOMAIN completed[k][i] \subseteq {"success", "message", "subject"}

C9_Witness ==
    /\ Len(completed) = 1
    /\ Len(completed[1]) = 2
    /\ \A i \in 1..2 : DOMAIN completed[1][i] = {"success", "message", "subject"}

\* the brand a mail item asks for: its own, else the request's; "" for none
NamedBrand(m) ==
    IF TruthyStr(m, "brand") THEN m.brand
    ELSE IF TruthyStr(config, "brand") THEN config.brand
    ELSE ""

\* the brand the item asks for is an entry of the request's branding sequence
BrandResolved(m) ==
    /\ NamedBrand(m) # ""
    /\ Has(config, "branding")
    /\ \E j \in DOMAIN config.branding : config.branding[j].name = NamedBrand(m)

\* a string body that starts with '<' but not with '<html' or '<!DOCTYPE'
IsFragment(body) ==
    /\ body.type = "string"
    /\ StartsWith(body.chars, <<"<">>)
    /\ ~StartsWith(body.chars, <<"<","h","t","m","l">>)
    /\ ~StartsWith(body.chars, <<"<","!","D","O","C","T","Y","P","E">>)

\* delivery call c is for an item with no resolved brand and a fragment body
C10Case(c) ==
    /\ Has(Mail[c.item], "body")
    /\ IsFragment(Mail[c.item].body)
    /\ ~BrandResolved(Mail[c.item])

\* C10 (as claimed): for a mail item with no resolved brand whose body starts
\* with '<' but not with '<html' or '<!DOCTYPE', the delivery request is HTML
\* with the original body unchanged as its data.
C10_FragmentSentUnchanged ==
    \A k \in DOMAIN sesCalls :
        C10Case(sesCalls[k]) =>
            sesCalls[k].params.Body = [Html |-> Mail[sesCalls[k].item].body.chars]

\* the skeleton of htmlify around bod, with empty css, header and footer
EmptySkeleton(bod) ==
    TemplateHead \o TemplateAfterCss \o TemplateAfterHeader \o bod \o
    TemplateAfterBody \o TemplateTail

\* C10 (amended): for such an item the delivery request is HTML, with no
\* plain-text body, and its data is the HTML skeleton of htmlify, with
\* empty css, header and footer, wrapped around the original body.
C10_FragmentSentInSkeleton ==
    \A k \in DOMAIN sesCalls :
        C10Case(sesCalls[k]) =>
            sesCalls[k].params.Body =
                [Html |-> EmptySkeleton(Mail[sesCalls[k].item].body.chars)]

C10_Witness ==
    \E k \in DOMAIN sesCalls :
        /\ C10Case(sesCalls[k])
        /\ NamedBrand(Mail[sesCalls[k].item]) = ""
        /\ DOMAIN sesCalls[k].params.Body = {"Html"}

\* a string body that does not start with '<'
IsPlainText(body) ==
    /\ body.type = "string"
    /\ ~StartsWith(body.chars, <<"<">>)

\* delivery call c is for an item that names a brand which is no entry of a
\* branding sequence, and whose body does not start with '<'
C11Case(c) ==
    /\ NamedBrand(Mail[c.item]) # ""
    /\ ~BrandResolved(Mail[c.item])
    /\ Has(Mail[c.item], "body")
    /\ IsPlainText(Mail[c.item].body)

\* C11 (as claimed): when an item or the request names a brand that cannot
\* be resolved, because there is no branding sequence or no entry of that
\* name, the item is treated as having no brand: a body not starting with
\* '<' goes out as plain text, unchanged.
C11_UnresolvedBrandIsNoBrand ==
    \A k \in DOMAIN sesCalls :
        C11Case(sesCalls[k]) =>
            sesCalls[k].params.Body = [Text |-> Mail[sesCalls[k].item].body.chars]

\* C12: htmlify returns its body unchanged whenever the body starts with
\* '<html' or '<!DOCTYPE', whatever the brand, and applying htmlify to its
\* own result, with the same brand, gives that result again.
C12_HtmlifyIdempotent ==
    htmlifyCall # <<>> =>
        /\ (/\ htmlifyCall.bod.type = "string"
            /\ \/ StartsWith(htmlifyCall.bod.chars, <<"<","h","t","m","l">>)
               \/ StartsWith(htmlifyCall.bod.chars, <<"<","!","D","O","C","T","Y","P","E">>))
           => htmlifyCall.out[1] = htmlifyCall.bod.chars
        /\ Len(htmlifyCall.out) = 2 => htmlifyCall.out[2] = htmlifyCall.out[1]

C12_Witness ==
    /\ htmlifyCall # <<>>
    /\ htmlifyCall.bod = BodyFragment
    /\ htmlifyCall.brand = BrandObject(Brand1)
    /\ Len(htmlifyCall.out) = 2
    /\ htmlifyCall.out[1] # htmlifyCall.bod.chars
    /\ Len(htmlifyCall.out[1]) > Len(EmptySkeleton(htmlifyCall.bod.chars))

\* C13 (as claimed): in src/index.js, when completionHandler has been handed
\* the results, the send callback of every mail item has fired and the
\* results it was handed carry each item's send outcome.
C13_CompletionAfterCallbacks ==
    \A k \in DOMAIN completed :
        /\ pending = {}
        /\ \A i \in DOMAIN Mail :
            /\ i \in DOMAIN replies
            /\ writes[i] = 1
            /\ completed[k][i].success = Outcome(i).success
            /\ completed[k][i].message = Outcome(i).message

\* C14: when recaptcha.enabled is true, startDeliveryProc has run, a sendMail
\* has been started or a delivery call has been issued only after the
\* verification called success.
C14_VerificationPrecedesDispatch ==
    (Enabled /\ (started > 0 \/ sent # <<>> \/ sesCalls # <<>>)) =>
        verification = "success"

\* verification enabled and successful, two delivery calls issued, and the
\* second has called back while the first is still outstanding
C14_Witness ==
    /\ Enabled
    /\ verification = "success"
    /\ Len(sesCalls) = 2
    /\ pending = {1}
    /\ 2 \in DOMAIN replies

RECURSIVE SumSeq(_)
SumSeq(q) == IF q = <<>> THEN 0 ELSE Head(q) + SumSeq(Tail(q))

\* the number of dispatch callbacks that have fired
Fired == SumSeq(writes)

\* C15: once startDeliveryProc has run, the latch is the number of mail items
\* less the number of dispatch callbacks fired and never below zero;
\* completionHandler has been invoked, once, exactly when a decrement has
\* brought the latch to zero, and never while a delivery call is outstanding.
\* A step invokes completionHandler only if a callback fires in it and the
\* latch is zero after it.
C15_LatchGuardsCompletion ==
    /\ [](started > 0 =>
            /\ latch = Len(Mail) - Fired
            /\ latch >= 0
            /\ Len(completed) <= 1
            /\ completed # <<>> <=> (latch = 0 /\ Fired > 0)
            /\ pending # {} => completed = <<>>)
    /\ [][completed' # completed =>
            /\ latch' = 0
            /\ pending' = {}
            /\ SumSeq(writes') > Fired]_vars

\* two delivery calls have both called back and the completion handler has
\* been invoked
C15_Witness ==
    /\ Len(Mail) = 2
    /\ Len(sesCalls) = 2
    /\ DOMAIN replies = {1, 2}
    /\ Fired = 2
    /\ latch = 0
    /\ Len(completed) = 1

\* building the delivery request of mail item m raises an exception: the
\* body is no string, so it has no startsWith, and no brand sends it through
\* htmlify first
BuildThrows(m) ==
    /\ Prop(m, "body").type # "string"
    /\ \/ NamedBrand(m) = ""
       \/ Has(config, "branding") /\ ~BrandResolved(m)

DeliverOff == Has(config, "deliver") /\ config.deliver = FALSE

\* C16 (as claimed): with deliver false, once startDeliveryProc has run there
\* is no delivery call, no callback has fired for any mail item, and the
\* completion handler has not been invoked.
C16_DeliverOffNoCallback ==
    (DeliverOff /\ started > 0) =>
        /\ sesCalls = <<>>
        /\ \A i \in DOMAIN Mail : writes[i] = 0
        /\ completed = <<>>

\* C16 (amended): with deliver false there is no delivery call, and no
\* callback fires for an item whose delivery request builds without an
\* exception; an item whose build throws gets its error callback. The latch
\* reaches zero and the completion handler is invoked exactly when there are
\* mail items and the build of every one of them throws.
C16_DeliverOffOnlyBuildErrorsCallBack ==
    (DeliverOff /\ started > 0) =>
        /\ sesCalls = <<>>
        /\ pending = {}
        /\ \A i \in DOMAIN Mail :
            IF BuildThrows(Mail[i])
            THEN writes[i] = 1 /\ results[i].success = FALSE /\ results[i].message = TypeError
            ELSE writes[i] = 0 /\ results[i].success = FALSE /\ results[i].message = Null
        /\ (\E i \in DOMAIN Mail : ~BuildThrows(Mail[i])) => latch > 0 /\ completed = <<>>
        /\ (Mail # <<>> /\ \A i \in DOMAIN Mail : BuildThrows(Mail[i])) =>
               latch = 0 /\ Len(completed) = 1
        /\ Mail = <<>> => completed = <<>>

\* deliver false, two items: the build of the first throws, the second builds
C16_Witness ==
    /\ DeliverOff
    /\ started > 0
    /\ Len(Mail) = 2
    /\ BuildThrows(Mail[1])
    /\ ~BuildThrows(Mail[2])
    /\ writes = <<1, 0>>
    /\ latch = 1
    /\ completed = <<>>

\* what the completion handler gets to see of a result
Visible(r) == Without(r, "mail")

\* C17 (as claimed): after startDeliveryProc there is one result per mail
\* item, in mail order, created with success false and message null, and each
\* is written exactly once, by the callback of its own item: no result is
\* written twice, and a result whose item has no delivery call outstanding
\* has been written once and carries the outcome of its item.
C17_ResultWrittenExactlyOnce ==
    started > 0 =>
        /\ Len(results) = Len(Mail)
        /\ \A i \in DOMAIN Mail :
            /\ Has(Mail[i], "subject") =>
                   Has(results[i], "subject") /\ results[i].subject = Mail[i].subject
            /\ writes[i] <= 1
            /\ writes[i] = 0 => results[i].success = FALSE /\ results[i].message = Null
            /\ i \notin pending =>
                   /\ writes[i] = 1
                   /\ results[i].success = Outcome(i).success
                   /\ results[i].message = Outcome(i).message

\* C17 (amended): after startDeliveryProc there is one result per mail item,
\* in mail order; a result no callback has written has success false and
\* message null, no result is written twice, and a written one carries the
\* outcome of its own item. A result has been written once exactly when the
\* build of its item threw or its delivery call has called back; with
\* deliver false a result whose item builds is never written; otherwise a
\* result whose item has no delivery call outstanding has been written once.
\* When the completion handler is invoked every result has been written
\* once. A callback step writes the result of the item whose delivery call
\* it answers and leaves every other result as it was.
C17_ResultWrittenOnceByOwnCallback ==
    /\ [](started > 0 =>
            /\ Len(results) = Len(Mail)
            /\ \A i \in DOMAIN Mail :
                /\ Has(Mail[i], "subject") =>
                       Has(results[i], "subject") /\ results[i].subject = Mail[i].subject
                /\ writes[i] <= 1
                /\ writes[i] = 0 => results[i].success = FALSE /\ results[i].message = Null
                /\ writes[i] = 1 =>
                       /\ results[i].success = Outcome(i).success
                       /\ results[i].message = Outcome(i).message
                /\ writes[i] = 1 <=> (BuildThrows(Mail[i]) \/ i \in DOMAIN replies)
                /\ (DeliverOff /\ ~BuildThrows(Mail[i])) => writes[i] = 0
                /\ (~DeliverOff /\ i \notin pending) => writes[i] = 1
            /\ \A k \in DOMAIN completed :
                /\ completed[k] = StripMail(results)
                /\ \A i \in DOMAIN Mail : writes[i] = 1)
    /\ [][started > 0 =>
            \A j \in DOMAIN results :
                /\ writes'[j] = writes[j] + (IF j \in pending \ pending' THEN 1 ELSE 0)
                /\ writes'[j] = writes[j] => Visible(results'[j]) = Visible(results[j])]_vars

\* the delivery call of the second item has called back with success, the
\* first is outstanding: the second result is written, the first as created
C17_Witness ==
    /\ Len(Mail) = 2
    /\ pending = {1}
    /\ writes = <<0, 1>>
    /\ results[1].success = FALSE /\ results[1].message = Null
    /\ results[2].success = TRUE /\ results[2].message = MessageId(2)
    /\ results[1].subject = "S1" /\ results[2].subject = "S1"

\* C18 (as claimed): the body of every delivery request has exactly one of
\* Html and Text: Html when the brand the item names, or else the request
\* names, is resolved, otherwise Html when the raw body starts with '<',
\* otherwise Text with the body unchanged.
C18_ExactlyOneBodyKind ==
    \A k \in DOMAIN sesCalls :
        LET m == Mail[sesCalls[k].item]
            Body == sesCalls[k].params.Body
        IN  /\ DOMAIN Body = {"Html"} \/ DOMAIN Body = {"Text"}
            /\ IF BrandResolved(m) THEN DOMAIN Body = {"Html"}
               ELSE IF m.body.type = "string" /\ StartsWith(m.body.chars, <<"<">>)
               THEN DOMAIN Body = {"Html"}
               ELSE m.body.type = "string" /\ Body = [Text |-> m.body.chars]

\* C19: once startDeliveryProc has run, sendMail has run for every mail item
\* in mail order and the handler has returned without an exception. An item
\* whose build throws has had its error callback once (success false, the
\* exception as message, the latch one lower) and no delivery call; every
\* other item has its delivery call unless deliver is false; and the
\* top-level error handler has been called for nothing but validation.
C19_BuildExceptionGoesToItemCallback ==
    started > 0 =>
        /\ pc = "returned"
        /\ sent = [i \in DOMAIN Mail |-> i]
        /\ errCalls = Validate(config).errs
        /\ latch = Len(Mail) - Fired
        /\ \A i \in DOMAIN Mail :
            IF BuildThrows(Mail[i])
            THEN /\ writes[i] = 1
                 /\ results[i].success = FALSE
                 /\ results[i].message = TypeError
                 /\ i \notin pending
                 /\ \A k \in DOMAIN sesCalls : sesCalls[k].item # i
            ELSE ~DeliverOff => \E k \in DOMAIN sesCalls : sesCalls[k].item = i

\* the build of the first of two items threw, the second was delivered, and
\* the completion handler got both results
C19_Witness ==
    /\ PassesValidation
    /\ Len(Mail) = 2
    /\ BuildThrows(Mail[1])
    /\ errCalls = <<>>
    /\ Len(sesCalls) = 1 /\ sesCalls[1].item = 2
    /\ Len(completed) = 1
    /\ completed[1][1].success = FALSE /\ completed[1][1].message = TypeError
    /\ completed[1][2].success = TRUE

====
